---- MODULE Spec2Model ----
(***************************************************************************)
(* TaskFlow real-time fan-out layer.                                       *)
(*                                                                         *)
(* The server is one event loop: every HTTP handler and every socket       *)
(* handshake is an async function that runs from one `await` to the next   *)
(* without interruption and may be overtaken by other handlers while it    *)
(* awaits.  Each action below is one such run-to-next-await segment.       *)
(*                                                                         *)
(*   Spec      the task routes (create, update, delete, share, unshare)    *)
(*             with up to MaxInFlight requests suspended at once.  The     *)
(*             handlers never read the sockets or the rooms, so what they  *)
(*             write and push is the same with or without socket traffic.  *)
(*   GateSpec  socket admission and disconnect, interleaved with the await *)
(*             segments of one task request at a time: who is in which     *)
(*             room and which socket receives which push.                  *)
(*   CacheSpec the dashboard page of one client: the pushed events it      *)
(*             receives and what its handlers do to its two task lists.    *)
(*   LinkSpec  the socket provider of one client: connection attempts,     *)
(*             socket.io's own reconnection, the provider's retry timers,  *)
(*             and the page's loadTasks calls.                             *)
(*   ShelfSpec tasks shared with a user who is offline, and the first page *)
(*             of GET /api/tasks/shared that the user's loadTasks fetches. *)
(*   AccountSpec account deletion, one database call at a time, while      *)
(*             task requests are served.                                   *)
(*   DueSpec   creates and updates that set a due date, validated on       *)
(*             arrival and again at the write, while the clock moves.      *)
(*   FanSpec   the task routes, one request at a time, when a push of an   *)
(*             update's fan-out throws.                                    *)
(*   RetrySpec the client's withRetry: attempts, outcomes and waits.       *)
(*   DialogSpec the page's share dialog and the task_unshared events it    *)
(*             receives while the dialog is open or closed.                *)
(*   AuthSpec  POST /api/auth/firebase: de-duplication by idToken and the  *)
(*             lookup, creation and duplicate-key recovery of the user.    *)
(***************************************************************************)
EXTENDS Integers, Sequences, FiniteSets, Bags, TLC

\* ---------------------------------------------------------------- bounds
MaxTasks == 1
MaxInFlight == 2
MaxConns == 2
\* Racing shares can store a user any number of times; sharedWith is capped.
MaxShared == 2
\* Task ids and task versions a client's lists and the events it gets range over.
MaxCached == 2
MaxVersion == 2
\* Sockets a client creates, retry timers it has pending, attempts counted.
MaxSockets == 2
MaxTimers == 2
MaxTried == 12
\* Tasks of other users that can be shared with the offline user.
MaxStored == 11
MaxTicks == 3
MaxListed == 3
MaxAuth == 3

\* ---------------------------------------------------------------- domain
Users == {"A", "B", "C"}
\* The task routes treat every user alike, so tasks are created by A alone;
\* B and C are the users a task is shared with or kept from.
Creators == {"A"}
NoUser == "none"
TaskIds == 1..MaxTasks
ConnIds == 1..MaxConns
\* The status values the modelled PUT requests carry.
StatusInputs == {"completed"}
NoTask == [owner |-> NoUser, sharedWith |-> <<>>, status |-> "none"]

\* A handshake field that holds no token.
NoToken == [kind |-> "none", uid |-> "", email |-> ""]

\* Addresses accepted by validateShare; "A@x" is a mixed-case spelling.
EmailInputs == {"a@x", "A@x", "b@x", "c@x", "nobody@x"}

VARIABLES
  tasks,    \* the Task collection: task id -> document, NoTask when absent
  created,  \* number of task ids handed out so far
  owners,   \* the owner each task id was created with (history only)
  reqs,     \* the bag of HTTP requests suspended at an await
  conns,    \* sockets: handshake position and attached user
  rooms,    \* socket.io rooms keyed by user id: user -> set of sockets
  pushed,   \* pushes made by the last step, in emission order
  inbox,    \* what each socket received in the last step
  resp,     \* the answer (HTTP response or handshake result) of the last step
  dash,     \* a client's DashboardPage state: its tasks and sharedTasks lists
  closure,  \* the tasks and sharedTasks the subscribed handleTaskUpdated closes over
  lastEvent,\* the pushed event the page received last, and what it did
  link,     \* a client's SocketProvider: its sockets, timers and refs
  shelf,    \* the tasks shared with an offline user and the list the user loaded
  acct,     \* the User collection's deletions and the account deletion under way
  cal,      \* the server clock, one task's dueDate and the request that sets it
  retry,    \* one withRetry call of the client: its options, attempts and waits
  modal,    \* the page's share dialog, its pending unshared ids and its sharedTasks ids
  auth      \* POST /api/auth/firebase: its requests, activeAuthRequests, User records

serverVars ==
  <<tasks, created, owners, reqs, conns, rooms, pushed, inbox, resp, acct, cal, auth>>

pageVars == <<dash, closure, lastEvent>>

clientVars == <<pageVars, link, shelf, retry, modal>>

vars == <<serverVars, clientVars>>

\* ------------------------------------------------------------ sequences
Range(s) == {s[i] : i \in 1..Len(s)}

RECURSIVE FindIndexFrom(_, _, _)
FindIndexFrom(s, x, i) ==
  IF i > Len(s) THEN 0
  ELSE IF s[i] = x THEN i ELSE FindIndexFrom(s, x, i + 1)

\* Array.prototype.findIndex with an equality test; 0 stands for -1.
FindIndex(s, x) == FindIndexFrom(s, x, 1)

\* Array.prototype.splice(i, 1)
Splice1(s, i) == SubSeq(s, 1, i - 1) \o SubSeq(s, i + 1, Len(s))

\* MongooseArray.includes
Includes(s, x) == FindIndex(s, x) # 0

\* ---------------------------------------------------------------- users
\* The User collection.  email is stored lower-cased (schema lowercase: true).
EmailOf(u) == CASE u = "A" -> "a@x" [] u = "B" -> "b@x" [] u = "C" -> "c@x"

\* String.prototype.toLowerCase on the modelled addresses.
ToLowerCase(e) == IF e = "A@x" THEN "a@x" ELSE e

\* User.findOne({ email })
FindUserByEmail(e) ==
  IF \E u \in Users \ acct.gone : EmailOf(u) = e
  THEN CHOOSE u \in Users \ acct.gone : EmailOf(u) = e
  ELSE NoUser

\* The JwtStrategy's User.findById(payload.userId): the request goes on to
\* its route only when the record exists.
Authenticated(user) == user \notin acct.gone

\* ------------------------------------------------------------- payloads
\* A task as it travels in a payload: the document's fields plus its _id.
TaskBody(id, doc) ==
  [id |-> id, owner |-> doc.owner, sharedWith |-> doc.sharedWith,
   status |-> doc.status]

NoPayloadBody == [id |-> 0, owner |-> NoUser, sharedWith |-> <<>>, status |-> "none"]

\* sanitizeTaskForEmission: a copy of the task with the owner reduced to
\* its public fields; every task field (and the owner's identity) is kept.
sanitizeTaskForEmission(task) == task

\* A payload: the task identifier, the task fields (NoPayloadBody when the
\* payload has none), the payload's own `event` field ("" when it has none)
\* and whether it carries a timestamp.
Payload(id, body, event, ts) == [id |-> id, body |-> body, event |-> event, ts |-> ts]

Push(room, name, data) == [room |-> room, name |-> name, data |-> data]

\* --------------------------------------------------------------- emitter
emitToUser(userId, event, data) == <<Push(userId, event, data)>>

emitToUsers(userIds, event, data) ==
  [i \in 1..Len(userIds) |-> Push(userIds[i], event, data)]

emitTaskCreated(task, recipients) ==
  LET eventData == Payload(task.id, sanitizeTaskForEmission(task), "task_created", TRUE)
  IN  (IF task.owner # NoUser
       THEN emitToUser(task.owner, "task_created", eventData) ELSE <<>>)
      \o emitToUsers(recipients, "task_created", eventData)

\* Variant: the update is announced to the owner alone.
emitTaskUpdatedToOwner(task, recipients) ==
  LET eventData == Payload(task.id, sanitizeTaskForEmission(task), "task_updated", TRUE)
  IN  IF task.owner # NoUser
      THEN emitToUser(task.owner, "task_updated", eventData) ELSE <<>>

emitTaskUpdated(task, recipients) ==
  LET eventData == Payload(task.id, sanitizeTaskForEmission(task), "task_updated", TRUE)
  IN  (IF task.owner # NoUser
       THEN emitToUser(task.owner, "task_updated", eventData) ELSE <<>>)
      \o emitToUsers(recipients, "task_updated", eventData)

emitTaskDeleted(taskId, ownerId, recipients) ==
  LET eventData == Payload(taskId, NoPayloadBody, "task_deleted", TRUE)
  IN  emitToUser(ownerId, "task_deleted", eventData)
      \o emitToUsers(recipients, "task_deleted", eventData)

\* Variant: the share is announced to the new recipients alone.
emitTaskSharedToRecipients(task, newRecipients) ==
  emitToUsers(newRecipients, "task_shared",
              Payload(task.id, sanitizeTaskForEmission(task), "task_shared", TRUE))

emitTaskShared(task, newRecipients) ==
  LET eventData == Payload(task.id, sanitizeTaskForEmission(task), "task_shared", TRUE)
  IN  emitToUsers(newRecipients, "task_shared", eventData)
      \o (IF task.owner # NoUser
          THEN emitToUser(task.owner, "task_updated", eventData) ELSE <<>>)

\* Exported by the socket module; no route calls it.
emitTaskUnshared(task, removedRecipients) ==
  LET eventData == Payload(task.id, sanitizeTaskForEmission(task), "task_unshared", TRUE)
  IN  emitToUsers(removedRecipients, "task_unshared", eventData)
      \o (IF task.owner # NoUser
          THEN emitToUser(task.owner, "task_updated",
                 Payload(task.id, sanitizeTaskForEmission(task), "task_updated", TRUE))
          ELSE <<>>)

\* Variant: every socket gets every event, whatever room it is in.
DeliverToAll(pushes) ==
  [c \in ConnIds |->
     [i \in 1..Len(pushes) |-> [name |-> pushes[i].name, data |-> pushes[i].data]]]

\* io.to(room).emit(...): every socket that is in the room now gets the
\* event; nothing is kept for sockets that are not.
Deliver(pushes) ==
  [c \in ConnIds |->
     LET mine == SelectSeq(pushes, LAMBDA p : c \in rooms[p.room])
     IN  [i \in 1..Len(mine) |-> [name |-> mine[i].name, data |-> mine[i].data]]]

NoInbox == [c \in ConnIds |-> <<>>]

\* -------------------------------------------------------------- requests
\* A request suspended at an await: the route, the await it waits on, the
\* authenticated user, the :id parameter, the route's argument (status or
\* :userId), the handler's local Mongoose document, the resolved
\* userToShare, and for the history: whether its write has resolved, whether
\* that write found its document, the stored sharedWith set just before it,
\* and the user a share request's e-mail belongs to (whether or not the
\* handler gets to look it up).
NoReq ==
  [kind |-> "none", pc |-> "none", user |-> NoUser, task |-> 0, arg |-> "",
   doc |-> NoTask, target |-> NoUser, committed |-> FALSE, hit |-> FALSE,
   pre |-> {}, aim |-> NoUser, rank |-> 0, passed |-> FALSE, lost |-> NoUser]

\* What the last step answered: an HTTP response (kind = the route) or the
\* outcome of a connection attempt (kind = "connect").
NoResp ==
  [kind |-> "none", code |-> 0, user |-> NoUser, task |-> 0, target |-> NoUser,
   committed |-> FALSE, hit |-> FALSE, pre |-> {}, post |-> {}, aim |-> NoUser,
   err |-> "", cause |-> "", conn |-> 0, token |-> NoToken, passed |-> FALSE,
   lost |-> NoUser]

\* res.status(code).json(...) of request r; post is the stored sharedWith
\* set just after r's write ({} when it wrote none or deleted the task).
Answer(r, code, post) ==
  [NoResp EXCEPT !.kind = r.kind, !.code = code, !.user = r.user, !.task = r.task,
                 !.target = r.target, !.committed = r.committed, !.hit = r.hit,
                 !.pre = r.pre, !.post = post, !.aim = r.aim, !.passed = r.passed,
                 !.lost = r.lost]

Quiet ==
  /\ pushed' = <<>>
  /\ inbox' = NoInbox
  /\ resp' = NoResp

\* History: the suspended requests whose write on task t has committed and
\* whose handler has not ended; their ranks 1, 2, ... are their commit order.
CommittedPending(t) == {o \in BagToSet(reqs) : o.task = t /\ o.rank > 0}

\* History: the rank a write takes when it commits.
Ranked(old, new) ==
  IF new.committed /\ ~old.committed
  THEN [new EXCEPT !.rank = Cardinality(CommittedPending(new.task)) + 1]
  ELSE new

\* History: a handler ends.  The writes committed after its own move up one
\* rank; when it pushed, the writes committed before its own are marked as
\* passed by a later write's events.
Unranked(o, left, pushes) ==
  IF o.task # left.task \/ o.rank = 0 \/ left.rank = 0 THEN o
  ELSE IF o.rank > left.rank THEN [o EXCEPT !.rank = @ - 1]
  ELSE IF pushes # <<>> THEN [o EXCEPT !.passed = TRUE]
  ELSE o

\* The request starts waiting on its next await.
Suspend(old, new) ==
  /\ reqs' = (reqs (-) SetToBag({old})) (+) SetToBag({Ranked(old, new)})
  /\ Quiet

\* The handler ends: the pushes it made on the way, then the response.
Finish(old, r, code, pushes) ==
  /\ reqs' = LET left == Ranked(old, r)
             IN  BagOfAll(LAMBDA o : Unranked(o, left, pushes),
                          reqs (-) SetToBag({old}))
  /\ pushed' = pushes
  /\ inbox' = Deliver(pushes)
  /\ resp' = Answer(r, code,
                IF ~r.committed THEN {}
                ELSE CASE r.kind \in {"update", "unshare"} -> Range(r.doc.sharedWith)
                       [] r.kind = "share" -> r.pre \cup {r.target}
                       [] OTHER -> {})

InFlight == BagToSet(reqs)

\* What a handler that reads nothing but sharedWith holds of a document.
SharedOnly(task) == [task EXCEPT !.status = "none"]

\* Variant of FindOwned: Task.findById(id), whoever asks.
FindById(id, userId) == tasks[id]

\* Task.findOne({ _id: id, owner: userId })
FindOwned(id, userId) ==
  IF tasks[id] # NoTask /\ tasks[id].owner = userId THEN tasks[id] ELSE NoTask

\* A request is answered before its handler has changed or pushed anything:
\* 400 from the validators, 503 from handleDBError (unshare only), or 500
\* because its first database call rejected.
Refuse(kind, code) ==
  /\ code \in {400, 500, 503}
  /\ code = 400 => kind \in {"create", "update", "share"}
  /\ code = 503 => kind = "unshare"
  /\ pushed' = <<>>
  /\ inbox' = NoInbox
  /\ resp' = [NoResp EXCEPT !.kind = kind, !.code = code]
  /\ UNCHANGED <<tasks, created, owners, reqs, conns, rooms>>

\* Variant: the catch branch announces the task before it answers 500.
DbFailAnnounced(r) ==
  /\ r \in InFlight
  /\ Finish(r, r, 500, emitTaskUpdated(TaskBody(r.task, r.doc), <<>>))
  /\ UNCHANGED <<tasks, created, owners, conns, rooms>>

\* An awaited database call of a suspended handler rejects: catch, 500.
DbFail(r) ==
  /\ r \in InFlight
  /\ Finish(r, r, 500, <<>>)
  /\ UNCHANGED <<tasks, created, owners, conns, rooms>>

\* ---- POST /api/tasks
\* The request arrives and Task.create resolves; next await: task.populate.
CreateInsert(limit, user) ==
  LET id == created + 1
      doc == [owner |-> user, sharedWith |-> <<>>, status |-> "pending"]
  IN  /\ BagCardinality(reqs) < limit
      /\ Authenticated(user)
      /\ created < MaxTasks
      /\ tasks' = [tasks EXCEPT ![id] = doc]
      /\ created' = id
      /\ owners' = [owners EXCEPT ![id] = user]
      /\ Suspend(NoReq, [NoReq EXCEPT !.kind = "create", !.pc = "populate",
                           !.user = user, !.task = id, !.doc = doc,
                           !.committed = TRUE, !.hit = TRUE])
      /\ UNCHANGED <<conns, rooms>>

\* task.populate resolved: emitTaskCreated(io, task, []), then 201.
CreateEmit(r) ==
  /\ r \in InFlight /\ r.kind = "create" /\ r.pc = "populate"
  /\ Finish(r, r, 201, emitTaskCreated(TaskBody(r.task, r.doc), <<>>))
  /\ UNCHANGED <<tasks, created, owners, conns, rooms>>

\* ---- PUT /api/tasks/:id
\* The request arrives and Task.findOne resolves.
UpdateFind(limit, user, id, status) ==
  LET r == [NoReq EXCEPT !.kind = "update", !.user = user, !.task = id, !.arg = status]
  IN  /\ BagCardinality(reqs) < limit
      /\ Authenticated(user)
      /\ IF FindOwned(id, user) = NoTask
         THEN Finish(NoReq, r, 404, <<>>)
         ELSE Suspend(NoReq, [r EXCEPT !.pc = "write"])
      /\ UNCHANGED <<tasks, created, owners, conns, rooms>>

\* Task.findByIdAndUpdate(id, updateData, { new: true }): the write and the
\* document it returns are one database operation; the populate queries
\* that follow keep the handler suspended.
UpdateWrite(r) ==
  LET updatedTask == [tasks[r.task] EXCEPT !.status = r.arg]
  IN  /\ r \in InFlight /\ r.kind = "update" /\ r.pc = "write"
      /\ IF tasks[r.task] = NoTask
         THEN /\ Finish(r, r, 404, <<>>)
              /\ UNCHANGED tasks
         ELSE /\ tasks' = [tasks EXCEPT ![r.task] = updatedTask]
              /\ Suspend(r, [r EXCEPT !.pc = "populate", !.doc = updatedTask,
                                      !.arg = "", !.committed = TRUE, !.hit = TRUE,
                                      !.pre = Range(updatedTask.sharedWith)])
      /\ UNCHANGED <<created, owners, conns, rooms>>

\* emitTaskUpdated(io, updatedTask, sharedUserIds), then 200.
UpdateEmit(r) ==
  LET sharedUserIds == r.doc.sharedWith
  IN  /\ r \in InFlight /\ r.kind = "update" /\ r.pc = "populate"
      /\ Finish(r, r, 200, emitTaskUpdated(TaskBody(r.task, r.doc), sharedUserIds))
      /\ UNCHANGED <<tasks, created, owners, conns, rooms>>

\* The emitter's try/catch when its k-th io.to(room).emit throws: the pushes
\* before it are made, the catch logs the error and the emitter returns.
EmitCaught(pushes, k) == SubSeq(pushes, 1, k - 1)

\* UpdateEmit when the k-th push of emitTaskUpdated throws; the route goes on
\* to its 200.
UpdateEmitThrows(r, k) ==
  LET sharedUserIds == r.doc.sharedWith
      pushes == emitTaskUpdated(TaskBody(r.task, r.doc), sharedUserIds)
  IN  /\ r \in InFlight /\ r.kind = "update" /\ r.pc = "populate"
      /\ k \in 1..Len(pushes)
      /\ Finish(r, [r EXCEPT !.lost = pushes[k].room], 200, EmitCaught(pushes, k))
      /\ UNCHANGED <<tasks, created, owners, conns, rooms>>

\* ---- DELETE /api/tasks/:id
\* The request arrives and Task.findOne(...).populate('sharedWith') resolves.
DeleteFind(limit, user, id) ==
  LET r == [NoReq EXCEPT !.kind = "delete", !.user = user, !.task = id]
      task == FindOwned(id, user)
  IN  /\ BagCardinality(reqs) < limit
      /\ Authenticated(user)
      /\ IF task = NoTask
         THEN Finish(NoReq, r, 404, <<>>)
         ELSE Suspend(NoReq, [r EXCEPT !.pc = "write", !.doc = SharedOnly(task)])
      /\ UNCHANGED <<tasks, created, owners, conns, rooms>>

\* Task.findByIdAndDelete(id) resolved (its result is not inspected), then
\* emitTaskDeleted with the shared users read by DeleteFind, then 200.
DeleteWrite(r) ==
  LET sharedUserIds == r.doc.sharedWith
      done == [r EXCEPT !.committed = TRUE, !.hit = (tasks[r.task] # NoTask),
                        !.pre = Range(tasks[r.task].sharedWith)]
  IN  /\ r \in InFlight /\ r.kind = "delete" /\ r.pc = "write"
      /\ tasks' = [tasks EXCEPT ![r.task] = NoTask]
      /\ Finish(r, done, 200, emitTaskDeleted(r.task, r.user, sharedUserIds))
      /\ UNCHANGED <<created, owners, conns, rooms>>

\* Variant: the share route without its self-share check.
ShareFindAnyUser(limit, user, id, email) ==
  LET userToShare == FindUserByEmail(ToLowerCase(email))
      r == [NoReq EXCEPT !.kind = "share", !.user = user, !.task = id,
                         !.aim = userToShare]
      task == FindOwned(id, user)
      found == [r EXCEPT !.target = userToShare]
  IN  /\ BagCardinality(reqs) < limit
      /\ Authenticated(user)
      /\ IF task = NoTask
         THEN Finish(NoReq, r, 404, <<>>)
         ELSE IF userToShare = NoUser
         THEN Finish(NoReq, r, 404, <<>>)
         ELSE IF Includes(task.sharedWith, userToShare)
         THEN Finish(NoReq, found, 400, <<>>)
         ELSE Suspend(NoReq, [found EXCEPT !.pc = "save",
                !.doc = [task EXCEPT !.sharedWith = Append(task.sharedWith, userToShare)]])
      /\ UNCHANGED <<tasks, created, owners, conns, rooms>>

\* ---- POST /api/tasks/:id/share
\* The request arrives; Task.findOne and User.findOne({ email:
\* email.toLowerCase() }) resolve; the already-shared check, the self-share
\* check, then task.sharedWith.push on the local document.  The second
\* lookup reads only the User collection, which no task route writes, so
\* it is taken together with the first.
ShareFind(limit, user, id, email) ==
  LET userToShare == FindUserByEmail(ToLowerCase(email))
      r == [NoReq EXCEPT !.kind = "share", !.user = user, !.task = id,
                         !.aim = userToShare]
      task == FindOwned(id, user)
      found == [r EXCEPT !.target = userToShare]
  IN  /\ BagCardinality(reqs) < limit
      /\ Authenticated(user)
      /\ IF task = NoTask
         THEN Finish(NoReq, r, 404, <<>>)
         ELSE IF userToShare = NoUser
         THEN Finish(NoReq, r, 404, <<>>)
         ELSE IF Includes(task.sharedWith, userToShare)
         THEN Finish(NoReq, found, 400, <<>>)
         ELSE IF userToShare = user
         THEN Finish(NoReq, found, 400, <<>>)
         ELSE Suspend(NoReq, [found EXCEPT !.pc = "save",
                !.doc = [task EXCEPT !.sharedWith = Append(task.sharedWith, userToShare)]])
      /\ UNCHANGED <<tasks, created, owners, conns, rooms>>

\* task.save() after a push: Mongoose sends $push for the pushed element (the
\* schema has versionKey: false, so nothing guards the write) and rejects
\* with DocumentNotFoundError when the document is gone.
ShareSave(r) ==
  LET stored == tasks[r.task]
      saved == [stored EXCEPT !.sharedWith = Append(stored.sharedWith, r.target)]
  IN  /\ r \in InFlight /\ r.kind = "share" /\ r.pc = "save"
      /\ Len(stored.sharedWith) < MaxShared
      /\ IF stored = NoTask
         THEN /\ Finish(r, r, 500, <<>>)
              /\ UNCHANGED tasks
         ELSE /\ tasks' = [tasks EXCEPT ![r.task] = saved]
              /\ Suspend(r, [r EXCEPT !.pc = "populate", !.committed = TRUE,
                                      !.hit = TRUE, !.pre = Range(stored.sharedWith)])
      /\ UNCHANGED <<created, owners, conns, rooms>>

\* The two task.populate calls resolved: emitTaskShared with the local
\* document, then 200.
ShareEmit(r) ==
  /\ r \in InFlight /\ r.kind = "share" /\ r.pc = "populate"
  /\ Finish(r, r, 200, emitTaskShared(TaskBody(r.task, r.doc), <<r.target>>))
  /\ UNCHANGED <<tasks, created, owners, conns, rooms>>

\* ---- DELETE /api/tasks/:taskId/share/:userId
\* The request arrives and Task.findOne resolves; findIndex of :userId in
\* sharedWith, then splice on the local document.
UnshareFind(limit, user, id, userId) ==
  LET r == [NoReq EXCEPT !.kind = "unshare", !.user = user, !.task = id, !.arg = userId]
      task == FindOwned(id, user)
      userIndex == FindIndex(task.sharedWith, userId)
  IN  /\ BagCardinality(reqs) < limit
      /\ Authenticated(user)
      /\ IF task = NoTask
         THEN Finish(NoReq, r, 404, <<>>)
         ELSE IF userIndex = 0
         THEN Finish(NoReq, r, 404, <<>>)
         ELSE Suspend(NoReq, [r EXCEPT !.pc = "save", !.target = userId, !.arg = "",
                !.doc = SharedOnly([task EXCEPT !.sharedWith =
                                      Splice1(task.sharedWith, userIndex)])])
      /\ UNCHANGED <<tasks, created, owners, conns, rooms>>

\* task.save() after a splice: Mongoose sends $set with the whole local array.
UnshareSave(r) ==
  LET stored == tasks[r.task]
  IN  /\ r \in InFlight /\ r.kind = "unshare" /\ r.pc = "save"
      /\ IF stored = NoTask
         THEN /\ Finish(r, r, 500, <<>>)
              /\ UNCHANGED tasks
         ELSE /\ tasks' = [tasks EXCEPT ![r.task].sharedWith = r.doc.sharedWith]
              /\ Suspend(r, [r EXCEPT !.pc = "refetch", !.committed = TRUE,
                                      !.hit = TRUE, !.pre = Range(stored.sharedWith)])
      /\ UNCHANGED <<created, owners, conns, rooms>>

\* Task.findById(taskId) re-read the task: emitTaskUpdated to the owner and
\* the shared users it lists now, task_unshared straight to :userId, 200.
UnshareEmit(r) ==
  LET updatedTask == tasks[r.task]
      recipients == <<updatedTask.owner>> \o updatedTask.sharedWith
  IN  /\ r \in InFlight /\ r.kind = "unshare" /\ r.pc = "refetch"
      /\ IF updatedTask = NoTask
         THEN Finish(r, r, 200, <<>>)
         ELSE Finish(r, r, 200,
                emitTaskUpdated(TaskBody(r.task, updatedTask), recipients)
                \o <<Push(r.target, "task_unshared",
                          Payload(r.task, NoPayloadBody, "", FALSE))>>)
      /\ UNCHANGED <<tasks, created, owners, conns, rooms>>

\* Every segment of the task routes, with at most `limit` requests suspended.
Serve(limit) ==
  \/ \E k \in {"create", "update", "delete", "share", "unshare"}, c \in {400, 500, 503} :
       Refuse(k, c)
  \/ \E r \in InFlight : DbFail(r)
  \/ \E u \in Creators : CreateInsert(limit, u)
  \/ \E r \in InFlight : CreateEmit(r)
  \/ \E u \in Users, t \in TaskIds, st \in StatusInputs : UpdateFind(limit, u, t, st)
  \/ \E r \in InFlight : UpdateWrite(r)
  \/ \E r \in InFlight : UpdateEmit(r)
  \/ \E u \in Users, t \in TaskIds : DeleteFind(limit, u, t)
  \/ \E r \in InFlight : DeleteWrite(r)
  \/ \E u \in Users, t \in TaskIds, e \in EmailInputs : ShareFind(limit, u, t, e)
  \/ \E r \in InFlight : ShareSave(r)
  \/ \E r \in InFlight : ShareEmit(r)
  \/ \E u \in Users, t \in TaskIds, x \in Users : UnshareFind(limit, u, t, x)
  \/ \E r \in InFlight : UnshareSave(r)
  \/ \E r \in InFlight : UnshareEmit(r)

\* ----------------------------------------------------- account deletion
\* DELETE /api/auth/profile, one step per database call it awaits.
NoAcct == [gone |-> {}, user |-> NoUser, pc |-> "idle"]

\* Task.deleteMany({ owner: user._id })
DeleteManyOwned(u) ==
  [t \in TaskIds |->
     IF tasks[t] # NoTask /\ tasks[t].owner = u THEN NoTask ELSE tasks[t]]

\* Task.updateMany({ sharedWith: user._id }, { $pull: { sharedWith: user._id } })
PullFromShared(u) ==
  [t \in TaskIds |->
     IF tasks[t] = NoTask THEN NoTask
     ELSE [tasks[t] EXCEPT !.sharedWith = SelectSeq(@, LAMBDA x : x # u)]]

\* The request arrives and Task.deleteMany resolves; next await: updateMany.
ProfileDeleteTasks(u) ==
  /\ acct.pc = "idle"
  /\ Authenticated(u)
  /\ tasks' = DeleteManyOwned(u)
  /\ acct' = [acct EXCEPT !.user = u, !.pc = "updateMany"]
  /\ Quiet
  /\ UNCHANGED <<created, owners, reqs, conns, rooms>>

\* Task.updateMany resolved; next awaits: the picture and identity-provider
\* deletions (their failures are caught and logged), then findByIdAndDelete.
ProfilePullShared ==
  /\ acct.pc = "updateMany"
  /\ tasks' = PullFromShared(acct.user)
  /\ acct' = [acct EXCEPT !.pc = "findByIdAndDelete"]
  /\ Quiet
  /\ UNCHANGED <<created, owners, reqs, conns, rooms>>

\* User.findByIdAndDelete resolved, then 200 'Account deleted successfully'.
ProfileDeleteUser ==
  /\ acct.pc = "findByIdAndDelete"
  /\ acct' = [gone |-> acct.gone \cup {acct.user}, user |-> NoUser, pc |-> "idle"]
  /\ pushed' = <<>>
  /\ inbox' = NoInbox
  /\ resp' = [NoResp EXCEPT !.kind = "account", !.code = 200, !.user = acct.user]
  /\ UNCHANGED <<tasks, created, owners, reqs, conns, rooms>>

\* The database call the route waits on rejects: the outer catch answers 500
\* and what the earlier calls wrote stays written.
ProfileFail ==
  /\ acct.pc # "idle"
  /\ acct' = [acct EXCEPT !.user = NoUser, !.pc = "idle"]
  /\ pushed' = <<>>
  /\ inbox' = NoInbox
  /\ resp' = [NoResp EXCEPT !.kind = "account", !.code = 500, !.user = acct.user]
  /\ UNCHANGED <<tasks, created, owners, reqs, conns, rooms>>

\* ------------------------------------------------------------ due dates
\* Times are milliseconds on the server clock (Date.getTime()).
DueBuffer == 60000

NoDue == 0

\* The dueDate values requests carry, and how far the clock moves at once.
DueInputs == {59999, 60000, 60001, 90000, 90001, 120000}

ClockSteps == {1, 30000}

NoDueReq == [kind |-> "none", pc |-> "none", due |-> NoDue]

NoDueOut == [kind |-> "none", code |-> 0, due |-> NoDue, at |-> 0, event |-> ""]

NoCal == [now |-> 0, ticks |-> 0, made |-> FALSE, stored |-> NoDue,
          req |-> NoDueReq, out |-> NoDueOut]

bufferTime(now) == now + DueBuffer

\* body('dueDate').custom of validateTask: passes unless inputDate < bufferTime.
validateTask(value, now) == ~(value < bufferTime(now))

\* body('dueDate').custom of validateTaskUpdate, the same test.
validateTaskUpdate(value, now) == ~(value < bufferTime(now))

\* Variant of the schema validator: the write is not validated again.
validatorSkipped(date, now) == TRUE

\* TaskSchema.dueDate validate.validator, run by Task.create and, through
\* runValidators: true, by Task.findByIdAndUpdate.
validator(date, now) == date >= bufferTime(now)

\* The server clock moves on.
ClockTick(k) ==
  /\ cal.ticks < MaxTicks
  /\ cal' = [cal EXCEPT !.now = @ + k, !.ticks = @ + 1, !.out = NoDueOut]

\* POST /api/tasks with a dueDate: validateTask and handleValidationErrors.
DueCreateArrive(value) ==
  LET r == [kind |-> "create", pc |-> "write", due |-> value]
  IN  /\ cal.req = NoDueReq
      /\ ~cal.made
      /\ IF validateTask(value, cal.now)
         THEN cal' = [cal EXCEPT !.req = r, !.out = NoDueOut]
         ELSE cal' = [cal EXCEPT !.out = [NoDueOut EXCEPT !.kind = "create",
                                            !.code = 400, !.due = value]]

\* Task.create: the schema validator, then the insert; a ValidationError is
\* caught and answered 500.  Next await: task.populate.
DueCreateWrite ==
  LET r == cal.req
  IN  /\ r.kind = "create" /\ r.pc = "write"
      /\ IF validator(r.due, cal.now)
         THEN cal' = [cal EXCEPT !.made = TRUE, !.stored = r.due,
                                 !.req = [r EXCEPT !.pc = "populate"],
                                 !.out = [NoDueOut EXCEPT !.at = cal.now]]
         ELSE cal' = [cal EXCEPT !.req = NoDueReq,
                                 !.out = [NoDueOut EXCEPT !.kind = "create",
                                            !.code = 500, !.due = r.due]]

\* task.populate resolved: emitTaskCreated, then 201.
DueCreateEmit ==
  LET r == cal.req
  IN  /\ r.kind = "create" /\ r.pc = "populate"
      /\ cal' = [cal EXCEPT !.req = NoDueReq,
                            !.out = [kind |-> "create", code |-> 201, due |-> r.due,
                                     at |-> cal.out.at, event |-> "task_created"]]

\* PUT /api/tasks/:id with a dueDate: validateTaskUpdate and
\* handleValidationErrors; next await: Task.findOne.
DueUpdateArrive(value) ==
  LET r == [kind |-> "update", pc |-> "find", due |-> value]
  IN  /\ cal.req = NoDueReq
      /\ IF validateTaskUpdate(value, cal.now)
         THEN cal' = [cal EXCEPT !.req = r, !.out = NoDueOut]
         ELSE cal' = [cal EXCEPT !.out = [NoDueOut EXCEPT !.kind = "update",
                                            !.code = 400, !.due = value]]

\* Task.findOne resolved: 404 without the task, else updateData is built
\* and Task.findByIdAndUpdate is awaited.
DueUpdateFind ==
  LET r == cal.req
  IN  /\ r.kind = "update" /\ r.pc = "find"
      /\ IF cal.made
         THEN cal' = [cal EXCEPT !.req = [r EXCEPT !.pc = "write"], !.out = NoDueOut]
         ELSE cal' = [cal EXCEPT !.req = NoDueReq,
                                 !.out = [NoDueOut EXCEPT !.kind = "update",
                                            !.code = 404, !.due = r.due]]

\* Task.findByIdAndUpdate(id, updateData, { new: true, runValidators: true }):
\* the schema validator, then the write; emitTaskUpdated and 200, or the
\* ValidationError caught and answered 500.
DueUpdateWrite ==
  LET r == cal.req
  IN  /\ r.kind = "update" /\ r.pc = "write"
      /\ IF validator(r.due, cal.now)
         THEN cal' = [cal EXCEPT !.stored = r.due, !.req = NoDueReq,
                                 !.out = [kind |-> "update", code |-> 200, due |-> r.due,
                                          at |-> cal.now, event |-> "task_updated"]]
         ELSE cal' = [cal EXCEPT !.req = NoDueReq,
                                 !.out = [NoDueOut EXCEPT !.kind = "update",
                                            !.code = 500, !.due = r.due]]

\* -------------------------------------------------- POST /api/auth/firebase
\* Two idTokens of one identity (the same uid and e-mail).
AuthTokens == {"t1", "t2"}

NoOutcome == [status |-> 0, message |-> "", id |-> 0]

InvalidToken == [status |-> 401, message |-> "Invalid Firebase token", id |-> 0]

NotFoundAfterDuplicate ==
  [status |-> 500,
   message |-> "User creation failed due to duplicate key but user not found", id |-> 0]

\* A request: its idToken, where it stands ("idle" before it arrives,
\* "waiting" as a duplicate, "verify", "find", "save", "refind" at the
\* handler's awaits, "answered"), whether it went through the handler,
\* whether its token was verified, and its answer.
NoAuthReq ==
  [token |-> "", pc |-> "idle", first |-> FALSE, verified |-> FALSE, out |-> NoOutcome]

\* users: the ids of the User records of the identity; made: ids handed
\* out; erased: a record of the identity has been deleted.
NoAuth ==
  [reqs |-> [i \in 1..MaxAuth |-> NoAuthReq],
   activeAuthRequests |-> {}, users |-> {}, made |-> 0, erased |-> FALSE]

\* authDeduplicationMiddleware: a request with a token that has an active
\* request waits on its promise; otherwise it stores a new promise and goes
\* on to the handler, which awaits adminAuth.verifyIdToken.
authDeduplicationMiddleware(i, token) ==
  LET r == auth.reqs[i]
  IN  /\ r.pc = "idle"
      /\ auth' =
           IF token \in auth.activeAuthRequests
           THEN [auth EXCEPT !.reqs[i] = [r EXCEPT !.token = token, !.pc = "waiting"]]
           ELSE [auth EXCEPT !.reqs[i] = [r EXCEPT !.token = token, !.pc = "verify",
                                                    !.first = TRUE],
                             !.activeAuthRequests = @ \cup {token}]

\* completeAuthRequest(req, result, error) followed by the handler's own
\* response: the promise settles with `settled`, which answers every
\* request waiting on it, the map entry is deleted, and request i is
\* answered with `answer`.
completeAuthRequest(i, settled, answer) ==
  LET token == auth.reqs[i].token
  IN  [auth EXCEPT
         !.reqs = [j \in 1..MaxAuth |->
                     IF j = i
                     THEN [auth.reqs[j] EXCEPT !.pc = "answered", !.out = answer]
                     ELSE IF auth.reqs[j].pc = "waiting" /\ auth.reqs[j].token = token
                     THEN [auth.reqs[j] EXCEPT !.pc = "answered", !.out = settled,
                                               !.verified = auth.reqs[i].verified]
                     ELSE auth.reqs[j]],
         !.activeAuthRequests = @ \ {token}]

\* adminAuth.verifyIdToken resolved (next await: User.findOne) or rejected
\* (the outer catch: 401).
AuthVerify(i, ok) ==
  /\ auth.reqs[i].pc = "verify"
  /\ auth' = IF ok
             THEN [auth EXCEPT !.reqs[i].pc = "find", !.reqs[i].verified = TRUE]
             ELSE completeAuthRequest(i, InvalidToken, InvalidToken)

\* User.findOne({ $or: [{ firebaseUid }, { email }] }) resolved: the found
\* user is answered with; without one a new User is built and save awaited.
AuthFind(i) ==
  /\ auth.reqs[i].pc = "find"
  /\ auth' = IF auth.users # {}
             THEN LET result == [status |-> 200, message |-> "",
                                 id |-> CHOOSE u \in auth.users : TRUE]
                  IN  completeAuthRequest(i, result, result)
             ELSE [auth EXCEPT !.reqs[i].pc = "save"]

\* Variant: the User collection without its unique indexes.
AuthSaveUnindexed(i) ==
  LET result == [status |-> 200, message |-> "", id |-> auth.made + 1]
  IN  /\ auth.reqs[i].pc = "save"
      /\ auth' = [completeAuthRequest(i, result, result) EXCEPT
                    !.users = @ \cup {auth.made + 1}, !.made = @ + 1]

\* user.save() resolved, or rejected with the duplicate-key error 11000 of
\* the unique indexes (next await: User.findOne(searchCriteria)).
AuthSave(i) ==
  LET result == [status |-> 200, message |-> "", id |-> auth.made + 1]
  IN  /\ auth.reqs[i].pc = "save"
      /\ auth' = IF auth.users = {}
                 THEN [completeAuthRequest(i, result, result) EXCEPT
                         !.users = {auth.made + 1}, !.made = @ + 1]
                 ELSE [auth EXCEPT !.reqs[i].pc = "refind"]

\* User.findOne(searchCriteria) resolved: the existing user is answered
\* with; without one the handler completes the promise with a 500 error
\* and throws, and the outer catch answers 401.
AuthRefind(i) ==
  /\ auth.reqs[i].pc = "refind"
  /\ auth' = IF auth.users # {}
             THEN LET result == [status |-> 200, message |-> "",
                                 id |-> CHOOSE u \in auth.users : TRUE]
                  IN  completeAuthRequest(i, result, result)
             ELSE completeAuthRequest(i, NotFoundAfterDuplicate, InvalidToken)

\* The identity's account is deleted: User.findByIdAndDelete.
AuthUserDeleted ==
  /\ auth.users # {}
  /\ auth' = [auth EXCEPT !.users = {}, !.erased = TRUE]

\* ------------------------------------------------------- connection gate
\* Bearer credentials as the identity verifier sees them: why verifyIdToken
\* rejects them, or the uid and e-mail it decodes them to.
ExpiredToken == [kind |-> "expired", uid |-> "", email |-> ""]

Tokens ==
  { ExpiredToken,
    [kind |-> "malformed", uid |-> "", email |-> ""],
    [kind |-> "forged", uid |-> "", email |-> ""],
    [kind |-> "valid", uid |-> "fa", email |-> "a@x"],
    [kind |-> "valid", uid |-> "fb", email |-> "b@x"],
    [kind |-> "valid", uid |-> "fz", email |-> "c@x"],
    [kind |-> "valid", uid |-> "fz", email |-> "nobody@x"],
    [kind |-> "valid", uid |-> "fz", email |-> ""] }

\* socket.handshake: the auth payload's token and the Authorization header.
Handshakes ==
  { [auth |-> NoToken, header |-> h] : h \in Tokens \cup {NoToken} }
  \cup { [auth |-> a, header |-> h] : a \in Tokens, h \in {NoToken, ExpiredToken} }

\* socket.handshake.auth.token || headers.authorization?.replace('Bearer ', '')
ExtractToken(h) == IF h.auth # NoToken THEN h.auth ELSE h.header

\* admin.auth().verifyIdToken: the error code it rejects with, "" when it resolves.
VerifyError(token) ==
  CASE token.kind = "expired" -> "auth/id-token-expired"
    [] token.kind = "malformed" -> "auth/argument-error"
    [] token.kind = "forged" -> "auth/invalid-id-token"
    [] OTHER -> ""

\* The firebaseUid stored on each User; C signed up without one.
FirebaseUidOf(u) == CASE u = "A" -> "fa" [] u = "B" -> "fb" [] OTHER -> ""

\* User.findOne({ firebaseUid })
FindUserByFirebaseUid(uid) ==
  IF \E u \in Users : FirebaseUidOf(u) = uid /\ uid # ""
  THEN CHOOSE u \in Users : FirebaseUidOf(u) = uid
  ELSE NoUser

\* The user the middleware resolves a decoded token to, NoUser when none.
ResolveUser(decoded) ==
  LET byUid == FindUserByFirebaseUid(decoded.uid)
  IN  IF byUid # NoUser THEN byUid
      ELSE IF decoded.email # "" THEN FindUserByEmail(decoded.email)
      ELSE NoUser

\* Variant: a catch branch that tells the expired credential from the rest
\* and nothing more.
CatchErrorTwoWay(code) ==
  IF code = "auth/id-token-expired" THEN "Authentication token expired"
  ELSE "Invalid authentication token"

\* The catch branch of the middleware: the Error handed to next().
CatchError(code) ==
  IF code = "auth/id-token-expired" THEN "Authentication token expired"
  ELSE IF code = "auth/argument-error" THEN "Invalid authentication token format"
  ELSE "Invalid authentication token"

\* Why an attempt does not reach next(): no token, the verifier's error
\* code, a rejected User lookup, or no matching User; "" when it is admitted.
GateCause(h, dbOk) ==
  LET token == ExtractToken(h)
  IN  IF token = NoToken THEN "no-token"
      ELSE IF VerifyError(token) # "" THEN VerifyError(token)
      ELSE IF ~dbOk THEN "lookup-rejected"
      ELSE IF ResolveUser(token) = NoUser THEN "no-user"
      ELSE ""

\* io.use(...): the Error message handed to next(), "" when it admits.  A
\* rejected lookup lands in the same catch as a rejected verification, with
\* no error code.
GateError(h, dbOk) ==
  LET cause == GateCause(h, dbOk)
  IN  CASE cause = "" -> ""
        [] cause = "no-token" -> "Authentication token required"
        [] cause = "no-user" -> "User not found"
        [] cause = "lookup-rejected" -> CatchError("")
        [] OTHER -> CatchError(cause)

\* A socket: whether it is connected, socket.user, and the credential it
\* was admitted with (history only).
NoConn == [st |-> "idle", user |-> NoUser, token |-> NoToken]

\* Variant: the socket joins every user's room.
JoinEveryRoom(c, userId) == [u \in Users |-> rooms[u] \cup {c}]

\* socket.join(userId)
Join(c, userId) == [rooms EXCEPT ![userId] = @ \cup {c}]

\* A connection attempt: the middleware and, when it admits, the
\* 'connection' handler: socket.join(userId) and the joined_room reply.
\* The middleware reads only the User collection, which no task route
\* writes, so the attempt is taken in one step.
Connect(c, h, dbOk) ==
  LET err == GateError(h, dbOk)
      user == ResolveUser(ExtractToken(h))
  IN  /\ conns[c].st = "idle"
      /\ pushed' = <<>>
      /\ IF err # ""
         THEN /\ resp' = [NoResp EXCEPT !.kind = "connect", !.conn = c, !.err = err,
                                        !.cause = GateCause(h, dbOk),
                                        !.token = ExtractToken(h)]
              /\ inbox' = NoInbox
              /\ UNCHANGED <<conns, rooms>>
         ELSE /\ conns' = [conns EXCEPT ![c] =
                   [st |-> "open", user |-> user, token |-> ExtractToken(h)]]
              /\ rooms' = Join(c, user)
              /\ resp' = [NoResp EXCEPT !.kind = "connect", !.conn = c, !.user = user,
                                        !.token = ExtractToken(h)]
              /\ inbox' = [NoInbox EXCEPT ![c] =
                   <<[name |-> "joined_room",
                      data |-> Payload(0, [NoPayloadBody EXCEPT !.owner = user], "", FALSE)]>>]
      /\ UNCHANGED <<tasks, created, owners, reqs>>

\* The socket closes; socket.io takes it out of every room.
Disconnect(c) ==
  /\ conns[c].st = "open"
  /\ conns' = [conns EXCEPT ![c] = NoConn]
  /\ rooms' = [u \in Users |-> rooms[u] \ {c}]
  /\ pushed' = <<>>
  /\ inbox' = NoInbox
  /\ resp' = [NoResp EXCEPT !.kind = "disconnect", !.conn = c]
  /\ UNCHANGED <<tasks, created, owners, reqs>>

\* -------------------------------------------------------- dashboard page
\* A task as the page holds it: its _id and its content, told apart by a
\* version number.
PageTasks == [id : 1..MaxCached, ver : 1..MaxVersion]

\* An event as the page keeps track of it: its name, the task it carries,
\* whether it repeats the event received just before it and whether
\* receiving it changed the page's lists (the last two are history only).
NoEvent == [name |-> "none", id |-> 0, ver |-> 0, again |-> FALSE, changed |-> FALSE]

\* The pushed events the page subscribes to that carry a task or a taskId.
PageEvents ==
  {[NoEvent EXCEPT !.name = n, !.id = t.id, !.ver = t.ver] :
     n \in {"task_created", "task_updated", "task_shared"}, t \in PageTasks}
  \cup {[NoEvent EXCEPT !.name = "task_deleted", !.id = i] : i \in 1..MaxCached}

\* prev.find(t => t._id === id) / findIndex(...) !== -1
HasId(list, id) == \E i \in 1..Len(list) : list[i].id = id

\* prev.map(task => task._id === newTask._id ? newTask : task)
ReplaceById(list, newTask) ==
  [i \in 1..Len(list) |-> IF list[i].id = newTask.id THEN newTask ELSE list[i]]

\* prev.filter(task => task._id !== taskId)
RemoveById(list, taskId) == SelectSeq(list, LAMBDA t : t.id # taskId)

\* setTasks(prev => ...) of handleTaskCreated
handleTaskCreated(prev, task) ==
  IF HasId(prev, task.id) THEN prev ELSE <<task>> \o prev

\* setSharedTasks(prev => ...) of handleTaskShared
handleTaskShared(prev, sharedTask) ==
  IF HasId(prev, sharedTask.id) THEN ReplaceById(prev, sharedTask)
  ELSE <<sharedTask>> \o prev

\* handleTaskDeleted: both lists are filtered.
handleTaskDeleted(prev, taskId) ==
  [tasks |-> RemoveById(prev.tasks, taskId),
   sharedTasks |-> RemoveById(prev.sharedTasks, taskId)]

\* handleTaskUpdated reads the lists it closed over when it was created
\* (seen) and sets a list only when it finds the task in it.
handleTaskUpdated(seen, prev, updatedTask) ==
  [tasks |-> IF HasId(seen.tasks, updatedTask.id)
             THEN ReplaceById(seen.tasks, updatedTask) ELSE prev.tasks,
   sharedTasks |-> IF HasId(seen.sharedTasks, updatedTask.id)
                   THEN ReplaceById(seen.sharedTasks, updatedTask)
                   ELSE prev.sharedTasks]

\* socket.on(name, handler): what the page's lists are after event e.
OnEvent(e) ==
  LET task == [id |-> e.id, ver |-> e.ver]
  IN  CASE e.name = "task_created" ->
             [dash EXCEPT !.tasks = handleTaskCreated(dash.tasks, task)]
        [] e.name = "task_shared" ->
             [dash EXCEPT !.sharedTasks = handleTaskShared(dash.sharedTasks, task)]
        [] e.name = "task_deleted" -> handleTaskDeleted(dash, e.id)
        [] e.name = "task_updated" -> handleTaskUpdated(closure, dash, task)

\* The page receives pushed event e.
Receive(e) ==
  /\ dash' = OnEvent(e)
  /\ lastEvent' = [e EXCEPT !.again = (lastEvent.name = e.name /\ lastEvent.id = e.id
                                        /\ lastEvent.ver = e.ver),
                            !.changed = (OnEvent(e) # dash)]
  /\ UNCHANGED closure

\* The page re-renders: the socket effect subscribes a handleTaskUpdated
\* that closes over the current lists.
Render ==
  /\ closure # dash
  /\ closure' = dash
  /\ UNCHANGED <<dash, lastEvent>>

\* A list of the page: no task twice, as loadTasks sets it.
PageLists ==
  {<<>>} \cup {<<t>> : t \in PageTasks}
  \cup {l \in {<<t, u>> : t \in PageTasks, u \in PageTasks} : l[1].id # l[2].id}

NoDash == [tasks |-> <<>>, sharedTasks |-> <<>>]

\* ------------------------------------------------------- socket provider
\* io(url, { reconnectionAttempts, reconnectionDelay, reconnectionDelayMax })
reconnectionAttempts == 10
reconnectionDelay == 1000
reconnectionDelayMax == 5000
\* setTimeout delays of the provider's disconnect and connect_error handlers
DisconnectRetryDelay == 2000
ErrorRetryDelay == 3000

\* The provider: the sockets io() has created (each with its state and its
\* manager's count of reconnection attempts), the retry timers pending, the
\* connectionInProgressRef and isConnected flags; and for the history: the
\* connection attempts made since the last successful connect, whether
\* loadTasks has been called since the client last was without a
\* connection, what the last step was, the delay it had waited for, and
\* whether disconnect() has been called.
NoLink ==
  [socks |-> <<>>, timers |-> 0, inProgress |-> FALSE, isConnected |-> FALSE,
   tried |-> 0, fresh |-> FALSE, step |-> "none", delay |-> 0, left |-> FALSE]

Min(a, b) == IF a < b THEN a ELSE b

\* Backoff.duration(): reconnectionDelay * 2^attempts, moved by the jitter
\* (percent of the delay, -50..50), then capped at reconnectionDelayMax.
BackoffDuration(attempts, jitter) ==
  LET ms == reconnectionDelay * 2^attempts
  IN  Min(ms + (ms * jitter) \div 100, reconnectionDelayMax)

Jitters == {-50, 0, 50}

\* setTimeout(...) stored in reconnectTimeoutRef; the timer it replaces is
\* not cleared and stays pending.
SetRetryTimer(n) == Min(n + 1, MaxTimers)

\* connect() past its guards: getIdToken, then io(...) creates a socket and
\* its first connection attempt starts; a rejected getIdToken ends in the
\* catch.  The `socket` that connect() closes over is the null of the
\* render that created it, so no earlier socket is disconnected.
OpenSocket(l, tokenOk, delay) ==
  IF tokenOk
  THEN [l EXCEPT !.socks = Append(@, [st |-> "opening", attempts |-> 0]),
                 !.inProgress = TRUE, !.tried = @ + 1, !.delay = delay]
  ELSE [l EXCEPT !.inProgress = FALSE, !.delay = delay]

\* The user is authenticated and synced: the page's user effect calls
\* loadTasks, the provider's effect calls connect().
Mount(tokenOk) ==
  /\ link.step = "none"
  /\ link' = [OpenSocket(link, tokenOk, 0) EXCEPT !.fresh = TRUE, !.step = "mount"]

\* 'connect': the attempt of socket i succeeded.  The handler sets
\* isConnected and clears the timer reconnectTimeoutRef holds, if that one
\* is still pending (cleared = 1).  The page re-subscribes its handlers.
SocketConnect(i, cleared) ==
  /\ i \in 1..Len(link.socks) /\ link.socks[i].st = "opening"
  /\ cleared <= link.timers
  /\ link' = [link EXCEPT !.socks[i] = [st |-> "connected", attempts |-> 0],
                          !.isConnected = TRUE, !.inProgress = FALSE,
                          !.timers = @ - cleared, !.tried = 0,
                          !.step = "connect", !.delay = 0]

\* 'connect_error': the attempt of socket i failed, at the transport or
\* (denied) in the server's middleware.  The handler sets a retry timer;
\* the manager schedules a reconnection attempt unless the server denied
\* the handshake or its attempts are used up.
SocketConnectError(i, denied) ==
  /\ i \in 1..Len(link.socks) /\ link.socks[i].st = "opening"
  /\ link' = [link EXCEPT
       !.socks[i].st = IF denied THEN "closed"
                       ELSE IF link.socks[i].attempts < reconnectionAttempts
                       THEN "backoff" ELSE "failed",
       !.isConnected = FALSE, !.inProgress = FALSE,
       !.timers = SetRetryTimer(@), !.step = "connect_error", !.delay = 0]

\* 'disconnect': socket i lost its connection.  The handler sets a retry
\* timer unless the server closed the socket; the manager reconnects on
\* its own in the same case.
SocketDisconnect(i, reason) ==
  /\ i \in 1..Len(link.socks) /\ link.socks[i].st = "connected"
  /\ link' = [link EXCEPT
       !.socks[i].st = IF reason = "io server disconnect" THEN "closed" ELSE "backoff",
       !.isConnected = FALSE, !.inProgress = FALSE,
       !.timers = IF reason = "io server disconnect" THEN @ ELSE SetRetryTimer(@),
       !.fresh = FALSE, !.step = "disconnect", !.delay = 0]

\* The manager of socket i makes its next reconnection attempt.
ManagerReconnect(i, jitter) ==
  /\ i \in 1..Len(link.socks) /\ link.socks[i].st = "backoff"
  /\ link.tried < MaxTried
  /\ link' = [link EXCEPT
       !.socks[i] = [st |-> "opening", attempts |-> link.socks[i].attempts + 1],
       !.tried = @ + 1, !.step = "reconnect_attempt",
       !.delay = BackoffDuration(link.socks[i].attempts, jitter)]

\* A retry timer of the provider fires: connect().
RetryTimerFires(tokenOk, delay) ==
  /\ link.timers > 0
  /\ link.tried < MaxTried
  /\ IF link.inProgress
     THEN link' = [link EXCEPT !.timers = @ - 1, !.step = "timer", !.delay = delay]
     ELSE /\ Len(link.socks) < MaxSockets
          /\ link' = [OpenSocket(link, tokenOk, delay) EXCEPT
                        !.timers = @ - 1, !.step = "timer"]

\* The user logs out: the provider's effect calls disconnect().  It sees
\* the socket that setSocket stored last and disconnects it ('io client
\* disconnect', after which neither the manager nor the handler retries),
\* and clears the timer reconnectTimeoutRef holds, if that one is still
\* pending (cleared = 1); earlier timers stay pending.
ProviderDisconnect(cleared) ==
  LET n == Len(link.socks)
  IN  /\ link.step # "none" /\ ~link.left
      /\ cleared <= link.timers
      /\ link' = [link EXCEPT
           !.socks = [i \in 1..n |-> IF i = n THEN [link.socks[i] EXCEPT !.st = "closed"]
                                     ELSE link.socks[i]],
           !.isConnected = FALSE,
           !.inProgress = IF n > 0 THEN FALSE ELSE @,
           !.timers = @ - cleared, !.fresh = FALSE,
           !.step = "logout", !.delay = 0, !.left = TRUE]

\* ------------------------------------------------------ shared-task list
\* loadTasks asks for { page, limit: 10 }.
PageLimit == 10

\* Tasks are named by their rank in creation order: a later createdAt is a
\* larger number.
StoredIds == 1..MaxStored

\* What is shared with user B, who owns none of these tasks and has no open
\* connection: the tasks whose sharedWith holds B, B's sharedTasks list,
\* the tasks shared with B since B's last loadTasks (history only), and the
\* last step.
NoShelf == [stored |-> {}, listed |-> <<>>, missed |-> {}, step |-> "none"]

Max(S) == CHOOSE x \in S : \A y \in S : y <= x

\* .sort({ createdAt: -1 })
RECURSIVE SortNewestFirst(_)
SortNewestFirst(S) ==
  IF S = {} THEN <<>> ELSE <<Max(S)>> \o SortNewestFirst(S \ {Max(S)})

\* Task.find({ sharedWith: userId, owner: { $ne: userId } })
\*   .sort({ createdAt: -1 }).skip((page - 1) * limit).limit(limit)
GetShared(stored, page, limit) ==
  LET sorted == SortNewestFirst(stored)
      skip == (page - 1) * limit
  IN  SubSeq(sorted, skip + 1, Min(skip + limit, Len(sorted)))

\* The owner shares task t with B (POST /:id/share commits); B has no
\* socket in its room, so the task_shared push reaches nobody.
ShareOffline(t) ==
  /\ t \notin shelf.stored
  /\ shelf' = [shelf EXCEPT !.stored = @ \cup {t},
                           !.missed = IF shelf.step = "load" THEN {t} ELSE @ \cup {t},
                           !.step = "share"]

\* B logs in: loadTasks(1, {}) fetches GET /api/tasks/shared and
\* setSharedTasks(sharedResponse.tasks).
LoadShared ==
  /\ shelf.step # "load"
  /\ shelf' = [shelf EXCEPT !.listed = GetShared(shelf.stored, 1, PageLimit),
                           !.step = "load"]

\* --------------------------------------------------------- share dialog
\* The page with its share dialog closed and MaxListed tasks of other users
\* in sharedTasks; `unshared` is what the server has unshared since, `step`
\* the handler that ran last and `on` the task it was about.
NoModal ==
  [isShareModalOpen |-> FALSE, unsharedTaskIdsPendingUpdate |-> <<>>,
   sharedTasks |-> 1..MaxListed, unshared |-> {}, step |-> "none", on |-> 0]

\* loadTasks(currentPage, filters): sharedTasks becomes what GET
\* /api/tasks/shared returns now.
ReloadShared(m) == [m EXCEPT !.sharedTasks = @ \ m.unshared]

openShareModal ==
  /\ ~modal.isShareModalOpen
  /\ modal' = [modal EXCEPT !.isShareModalOpen = TRUE, !.step = "open", !.on = 0]

\* The owner of task t unshares it from this user; handleTaskUnshared runs.
handleTaskUnshared(taskId) ==
  LET m == [modal EXCEPT !.unshared = @ \cup {taskId}, !.step = "unshared",
                         !.on = taskId]
  IN  /\ taskId \in modal.sharedTasks \ modal.unshared
      /\ modal' =
           IF modal.isShareModalOpen
           THEN [m EXCEPT !.unsharedTaskIdsPendingUpdate = Append(@, taskId)]
           ELSE ReloadShared(m)

\* The dialog's onClose (cancel, overlay, escape).
handleShareModalClose ==
  LET m == [modal EXCEPT !.isShareModalOpen = FALSE, !.step = "close", !.on = 0]
  IN  /\ modal.isShareModalOpen
      /\ modal' =
           IF Len(modal.unsharedTaskIdsPendingUpdate) > 0
           THEN [ReloadShared(m) EXCEPT !.unsharedTaskIdsPendingUpdate = <<>>]
           ELSE m

\* The dialog's onShare: taskService.shareTask resolved (onShareModalClose
\* and a toast) or rejected (a toast, the dialog stays open).
handleShareTask(ok) ==
  /\ modal.isShareModalOpen
  /\ modal' = [modal EXCEPT !.isShareModalOpen = ~ok,
                            !.step = IF ok THEN "shared" ELSE "share-failed", !.on = 0]

\* ------------------------------------------------------------ withRetry
defaultOptions ==
  [maxAttempts |-> 5, baseDelay |-> 2000, maxDelay |-> 30000, backoffFactor |-> 2,
   jitter |-> TRUE]

\* The options withRetry is called with: Partial<RetryOptions> over the
\* defaults.
RetryConfigs ==
  {[defaultOptions EXCEPT !.maxAttempts = m, !.baseDelay = b] :
     m \in {2, 3, 5, 6}, b \in {1000, 2000}}

\* What one invocation of the wrapped operation ends with: "ok", or the
\* error's response status or code.
RetryOutcomes == {"ok", "401", "403", "404", "500", "503", "ERR_NETWORK"}

\* Math.random() * 1000, in whole milliseconds.
RetryJitters == {0, 500, 999}

NoRetry ==
  [config |-> defaultOptions, status |-> "idle", attempt |-> 0, calls |-> 0,
   wait |-> 0, after |-> "none", at |-> 0]

isWarmupError(error) == error \in {"503", "ERR_NETWORK"}

RECURSIVE Pow(_, _)
Pow(b, n) == IF n = 0 THEN 1 ELSE b * Pow(b, n - 1)

calculateDelay(attempt, options, random) ==
  LET delay == Min(options.baseDelay * Pow(options.backoffFactor, attempt),
                   options.maxDelay)
  IN  IF options.jitter THEN delay + random ELSE delay

\* withRetry(fn, options) is called.
RetryCall(config) ==
  /\ retry.status # "running"
  /\ retry' = [NoRetry EXCEPT !.config = config, !.status = "running"]

\* One pass of withRetry's loop: fn() is awaited and ends with `outcome`;
\* the loop returns, throws, or waits calculateDelay and goes round again.
RetryAttempt(outcome, random) ==
  LET config == retry.config
      attempt == retry.attempt
      called == [retry EXCEPT !.calls = @ + 1]
  IN  /\ retry.status = "running"
      /\ attempt < config.maxAttempts
      /\ retry' =
           IF outcome = "ok" THEN [called EXCEPT !.status = "resolved"]
           ELSE IF outcome \in {"401", "403", "404"}
             THEN [called EXCEPT !.status = "thrown"]
           ELSE IF ~isWarmupError(outcome) /\ attempt >= 2
             THEN [called EXCEPT !.status = "thrown"]
           ELSE IF attempt = config.maxAttempts - 1
             THEN [called EXCEPT !.status = "thrown"]
           ELSE [called EXCEPT !.attempt = attempt + 1,
                               !.wait = calculateDelay(attempt, config, random),
                               !.after = outcome, !.at = attempt]

\* -------------------------------------------------------- specifications
ServerInit ==
  /\ tasks = [t \in TaskIds |-> NoTask]
  /\ created = 0
  /\ owners = [t \in TaskIds |-> NoUser]
  /\ reqs = EmptyBag
  /\ conns = [c \in ConnIds |-> NoConn]
  /\ rooms = [u \in Users |-> {}]
  /\ pushed = <<>>
  /\ inbox = NoInbox
  /\ resp = NoResp
  /\ acct = NoAcct
  /\ cal = NoCal
  /\ auth = NoAuth

PageInit ==
  /\ dash = NoDash
  /\ closure = NoDash
  /\ lastEvent = NoEvent
  /\ link = NoLink
  /\ shelf = NoShelf
  /\ retry = NoRetry
  /\ modal = NoModal

Init == ServerInit /\ PageInit

Next == Serve(MaxInFlight) /\ UNCHANGED <<clientVars, acct, cal, auth>>

Spec == Init /\ [][Next]_vars

GateNext ==
  /\ \/ Serve(1)
     \/ \E c \in ConnIds, h \in Handshakes, ok \in BOOLEAN : Connect(c, h, ok)
     \/ \E c \in ConnIds : Disconnect(c)
  /\ UNCHANGED <<clientVars, acct, cal, auth>>

GateSpec == Init /\ [][GateNext]_vars

\* The page after loadTasks has set its lists, then events and re-renders.
CacheInit ==
  /\ ServerInit
  /\ dash \in [tasks : PageLists, sharedTasks : PageLists]
  /\ closure = dash
  /\ lastEvent = NoEvent
  /\ link = NoLink
  /\ shelf = NoShelf
  /\ retry = NoRetry
  /\ modal = NoModal

CacheNext ==
  /\ \/ \E e \in PageEvents : Receive(e)
     \/ Render
  /\ UNCHANGED <<serverVars, link, shelf, retry, modal>>

CacheSpec == CacheInit /\ [][CacheNext]_vars

LinkNext ==
  /\ \/ \E ok \in BOOLEAN : Mount(ok)
     \/ \E i \in 1..MaxSockets, k \in {0, 1} : SocketConnect(i, k)
     \/ \E i \in 1..MaxSockets, denied \in BOOLEAN : SocketConnectError(i, denied)
     \/ \E i \in 1..MaxSockets, reason \in {"transport close", "io server disconnect"} :
          SocketDisconnect(i, reason)
     \/ \E i \in 1..MaxSockets, j \in Jitters : ManagerReconnect(i, j)
     \/ \E ok \in BOOLEAN, d \in {DisconnectRetryDelay, ErrorRetryDelay} :
          RetryTimerFires(ok, d)
     \/ \E k \in {0, 1} : ProviderDisconnect(k)
  /\ UNCHANGED <<serverVars, pageVars, shelf, retry, modal>>

LinkSpec == Init /\ [][LinkNext]_vars

ShelfNext ==
  /\ \/ \E t \in StoredIds : ShareOffline(t)
     \/ LoadShared
  /\ UNCHANGED <<serverVars, pageVars, link, retry, modal>>

ShelfSpec == Init /\ [][ShelfNext]_vars

\* Task requests, one at a time, while accounts are being deleted.
AccountNext ==
  /\ \/ Serve(1) /\ UNCHANGED acct
     \/ \E u \in Users : ProfileDeleteTasks(u)
     \/ ProfilePullShared
     \/ ProfileDeleteUser
     \/ ProfileFail
  /\ UNCHANGED <<clientVars, cal, auth>>

AccountSpec == Init /\ [][AccountNext]_vars

\* Creates and updates that set a dueDate, while the clock moves.
DueNext ==
  /\ \/ \E k \in ClockSteps : ClockTick(k)
     \/ \E d \in DueInputs : DueCreateArrive(d)
     \/ DueCreateWrite
     \/ DueCreateEmit
     \/ \E d \in DueInputs : DueUpdateArrive(d)
     \/ DueUpdateFind
     \/ DueUpdateWrite
  /\ UNCHANGED <<tasks, created, owners, reqs, conns, rooms, pushed, inbox, resp, acct, auth>>
  /\ UNCHANGED clientVars

DueSpec == Init /\ [][DueNext]_vars

\* The task routes, one request at a time, with pushes that may throw.
FanNext ==
  /\ \/ Serve(1)
     \/ \E r \in InFlight, k \in 1..(MaxShared + 1) : UpdateEmitThrows(r, k)
  /\ UNCHANGED <<clientVars, acct, cal, auth>>

FanSpec == Init /\ [][FanNext]_vars

RetryNext ==
  /\ \/ \E config \in RetryConfigs : RetryCall(config)
     \/ \E outcome \in RetryOutcomes, random \in RetryJitters :
          RetryAttempt(outcome, random)
  /\ UNCHANGED <<serverVars, pageVars, link, shelf, modal>>

RetrySpec == Init /\ [][RetryNext]_vars

DialogNext ==
  /\ \/ openShareModal
     \/ \E t \in 1..MaxListed : handleTaskUnshared(t)
     \/ handleShareModalClose
     \/ \E ok \in BOOLEAN : handleShareTask(ok)
  /\ UNCHANGED <<serverVars, pageVars, link, shelf, retry>>

DialogSpec == Init /\ [][DialogNext]_vars

AuthNext ==
  /\ \/ \E i \in 1..MaxAuth, token \in AuthTokens : authDeduplicationMiddleware(i, token)
     \/ \E i \in 1..MaxAuth, ok \in BOOLEAN : AuthVerify(i, ok)
     \/ \E i \in 1..MaxAuth : AuthFind(i)
     \/ \E i \in 1..MaxAuth : AuthSave(i)
     \/ \E i \in 1..MaxAuth : AuthRefind(i)
     \/ AuthUserDeleted
  /\ UNCHANGED <<tasks, created, owners, reqs, conns, rooms, pushed, inbox, resp, acct, cal>>
  /\ UNCHANGED clientVars

AuthSpec == Init /\ [][AuthNext]_vars

\* ------------------------------------------------------------ properties
\* The pushes of the last step named `name`, on task t, into user u's room.
PushesOf(name, u, t) ==
  {i \in 1..Len(pushed) :
     pushed[i].name = name /\ pushed[i].room = u /\ pushed[i].data.id = t}

\* The pushes of the last step named `name` on task t, into whatever room.
PushesOfName(name, t) ==
  {i \in 1..Len(pushed) : pushed[i].name = name /\ pushed[i].data.id = t}

\* The events named `name` on task t that socket c received in the last step.
Received(c, name, t) ==
  {i \in 1..Len(inbox[c]) : inbox[c][i].name = name /\ inbox[c][i].data.id = t}

\* C1: when the handler of POST /api/tasks ends after it has persisted task
\* T of owner O, every socket then in O's room has received task_created
\* for T exactly once; task_created goes to no room but O's and is pushed
\* by nothing but the creation of the task it names.
C1_CreatedExactlyOnce ==
  /\ (resp.kind = "create" /\ resp.committed) =>
       \A c \in rooms[owners[resp.task]] :
         Cardinality(Received(c, "task_created", resp.task)) = 1
  /\ \A i \in 1..Len(pushed) :
       pushed[i].name = "task_created" =>
         /\ resp.kind = "create" /\ resp.committed
         /\ pushed[i].data.id = resp.task
         /\ pushed[i].room = owners[resp.task]

\* The task is stored, the owner is connected, the handler has ended with
\* 500 and the owner's socket has received nothing.
C1_PersistedUnannounced ==
  /\ resp.kind = "create" /\ resp.committed /\ resp.code = 500
  /\ tasks[resp.task] # NoTask
  /\ \E c \in rooms[owners[resp.task]] : inbox[c] = <<>>

\* Whether payload body b is the full body of task t: its id, its owner and
\* every task field.
FullBody(b, t) == b # NoPayloadBody /\ b.id = t /\ b.owner = owners[t]

\* C2: a successful share of task T with user B pushes task_shared with the
\* full task body into B's room and into no other room; and whatever a step
\* pushes about T goes only to T's owner and to users who were in T's
\* sharedWith set just before or just after the write of the request that
\* pushes.  (A delete whose write found the task already gone repeats an
\* earlier announcement and is left out.)
C2_OnlyEntitledReceive ==
  /\ (resp.kind = "share" /\ resp.code = 200) =>
       /\ \E i \in PushesOf("task_shared", resp.target, resp.task) :
            FullBody(pushed[i].data.body, resp.task)
       /\ \A i \in 1..Len(pushed) :
            pushed[i].name = "task_shared" => pushed[i].room = resp.target
  /\ resp.hit =>
       \A i \in 1..Len(pushed) :
         /\ pushed[i].data.id = resp.task
         /\ pushed[i].room \in {owners[resp.task]} \cup resp.pre \cup resp.post

\* A delete that did remove the task tells a user who was no longer in its
\* sharedWith set when it was removed.
C2_StrangerTold ==
  /\ resp.kind = "delete" /\ resp.hit
  /\ \E i \in 1..Len(pushed) :
       /\ pushed[i].name = "task_deleted"
       /\ pushed[i].room \notin {owners[resp.task]} \cup resp.pre

\* C3: a successful DELETE /api/tasks/:id of task T pushes task_deleted into
\* the owner's room and into the room of every user who was in T's
\* sharedWith set when T was removed, and the payload carries T's id and no
\* task body.
C3_DeletedReachesAll ==
  (resp.kind = "delete" /\ resp.code = 200) =>
    /\ \A u \in {owners[resp.task]} \cup resp.pre :
         PushesOf("task_deleted", u, resp.task) # {}
    /\ \A i \in 1..Len(pushed) :
         pushed[i].name = "task_deleted" => pushed[i].data.body = NoPayloadBody

\* A delete answers 200 and a user who was in sharedWith when the task was
\* removed has been pushed nothing.
C3_SharedUserMissed ==
  /\ resp.kind = "delete" /\ resp.code = 200
  /\ \E u \in resp.pre : \A i \in 1..Len(pushed) : pushed[i].room # u

\* C4: a successful PUT /api/tasks/:id of task T pushes task_updated with
\* the full updated task into the owner's room and into the room of every
\* user in the updated task's sharedWith set, and pushes nothing else.
C4_UpdatedFanOut ==
  (resp.kind = "update" /\ resp.code = 200) =>
    /\ \A u \in {owners[resp.task]} \cup resp.post :
         PushesOf("task_updated", u, resp.task) # {}
    /\ \A i \in 1..Len(pushed) :
         /\ pushed[i].name = "task_updated"
         /\ pushed[i].room \in {owners[resp.task]} \cup resp.post
         /\ FullBody(pushed[i].data.body, resp.task)
         /\ pushed[i].data.body.status \in StatusInputs
         /\ Range(pushed[i].data.body.sharedWith) = resp.post

\* An update of a task shared with two users has been answered 200.
C4_SharedTaskUpdated ==
  resp.kind = "update" /\ resp.code = 200 /\ resp.post = {"B", "C"}

\* C5: a successful DELETE /api/tasks/:taskId/share/:userId that removes
\* user R from task T pushes task_unshared with T's id and no task body
\* into R's room, pushes into the owner's room and into the room of every
\* remaining shared user a task_updated whose sharedWith does not contain
\* R, and pushes no task_updated into R's room.
C5_UnsharedFanOut ==
  (resp.kind = "unshare" /\ resp.code = 200) =>
    /\ \E i \in PushesOf("task_unshared", resp.target, resp.task) :
         pushed[i].data.body = NoPayloadBody
    /\ \A u \in ({owners[resp.task]} \cup resp.post) \ {resp.target} :
         \E i \in PushesOf("task_updated", u, resp.task) :
           ~Includes(pushed[i].data.body.sharedWith, resp.target)
    /\ PushesOf("task_updated", resp.target, resp.task) = {}

\* An unshare has removed R, answers 200 and has pushed nothing at all.
C5_UnsharedUntold ==
  resp.kind = "unshare" /\ resp.code = 200 /\ resp.hit /\ pushed = <<>>

\* C6: a successful share of task T with user B pushes into the owner's
\* room a task_updated for T whose sharedWith contains B, besides the
\* task_shared it pushes into B's room.
C6_ShareFollowUp ==
  (resp.kind = "share" /\ resp.code = 200) =>
    /\ \E i \in PushesOf("task_updated", owners[resp.task], resp.task) :
         Includes(pushed[i].data.body.sharedWith, resp.target)
    /\ PushesOf("task_shared", resp.target, resp.task) # {}

\* A's task has been shared with B and the share answered 200.
C6_SharedWithB ==
  /\ resp.kind = "share" /\ resp.code = 200
  /\ resp.user = "A" /\ resp.target = "B"

\* C7: no stored task's sharedWith contains the task's owner; and a step
\* that answers a share request whose e-mail resolves to the task's owner
\* rejects it, pushes nothing and leaves every task as it was.
C7_NoSelfShare ==
  /\ [](\A t \in TaskIds : ~Includes(tasks[t].sharedWith, owners[t]))
  /\ [][(resp'.kind = "share" /\ resp'.aim # NoUser
           /\ resp'.aim = owners[resp'.task]) =>
          /\ resp'.code \in {400, 404}
          /\ pushed' = <<>>
          /\ tasks' = tasks]_vars

\* The owner's share request naming the owner's own address (in either
\* spelling) has been answered 400.
C7_SelfShareRejected ==
  /\ resp.kind = "share" /\ resp.code = 400 /\ resp.aim # NoUser
  /\ resp.aim = resp.user /\ resp.user = owners[resp.task]

RoomsOf(c) == {u \in Users : c \in rooms[u]}

\* C9: every socket in a room is connected, was admitted with a credential
\* that the verifier accepts and that names an existing User by its uid or
\* its e-mail, carries that User, and is in that User's room and no other;
\* a connected socket keeps its user until it disconnects; and an attempt
\* without a credential is rejected and joins nothing.
C9_RoomsHoldVerifiedUsers ==
  /\ [](\A c \in ConnIds :
          /\ RoomsOf(c) # {} =>
               /\ conns[c].st = "open"
               /\ conns[c].token \in Tokens
               /\ VerifyError(conns[c].token) = ""
               /\ conns[c].user \in Users
               /\ \/ FirebaseUidOf(conns[c].user) = conns[c].token.uid
                  \/ EmailOf(conns[c].user) = conns[c].token.email
          /\ conns[c].st = "open" => RoomsOf(c) = {conns[c].user}
          /\ conns[c].st # "open" => RoomsOf(c) = {})
  /\ [](resp.cause = "no-token" =>
          /\ resp.err = "Authentication token required"
          /\ conns[resp.conn].st = "idle")
  /\ [][\A c \in ConnIds :
          (conns[c].st = "open" /\ conns'[c].st = "open") =>
            conns'[c].user = conns[c].user]_vars

\* Two sockets are connected, one for C (found by e-mail) and one for A, and
\* an update of A's task has reached A's socket and not C's.
C9_TwoUsersConnected ==
  /\ conns[1].st = "open" /\ conns[1].user = "C"
  /\ conns[2].st = "open" /\ conns[2].user = "A"
  /\ resp.kind = "update" /\ resp.code = 200 /\ inbox[2] # <<>> /\ inbox[1] = <<>>

\* The error codes of a rejected verification.
VerifierCodes == {"auth/id-token-expired", "auth/argument-error", "auth/invalid-id-token"}

\* C10 as stated: a verification that fails on an expired credential is
\* rejected with the credential-expired error, one that fails for any other
\* reason (a malformed credential included) with the one invalid-credential
\* error, and the socket joins no room.
C10_TwoErrors ==
  (resp.kind = "connect" /\ resp.cause \in VerifierCodes) =>
    /\ resp.err = IF resp.cause = "auth/id-token-expired"
                  THEN "Authentication token expired"
                  ELSE "Invalid authentication token"
    /\ RoomsOf(resp.conn) = {}

\* C10: a verification that fails on an expired credential is rejected with
\* 'Authentication token expired', one that fails on a malformed credential
\* with 'Invalid authentication token format', one that fails for any other
\* reason with 'Invalid authentication token'; the socket joins no room.
C10_ThreeErrors ==
  (resp.kind = "connect" /\ resp.cause \in VerifierCodes) =>
    /\ resp.err = CASE resp.cause = "auth/id-token-expired" ->
                         "Authentication token expired"
                    [] resp.cause = "auth/argument-error" ->
                         "Invalid authentication token format"
                    [] OTHER -> "Invalid authentication token"
    /\ RoomsOf(resp.conn) = {}
    /\ conns[resp.conn].st = "idle"

\* A handshake with a malformed credential has been rejected.
C10_MalformedRejected ==
  /\ resp.kind = "connect" /\ resp.cause = "auth/argument-error"
  /\ resp.err # ""

\* The User records a decoded token names: by its uid, by its e-mail.
MatchesByUid(token) == {u \in Users : token.uid # "" /\ FirebaseUidOf(u) = token.uid}

MatchesByEmail(token) == {u \in Users : token.email # "" /\ EmailOf(u) = token.email}

\* C11: when the verifier accepts the credential, the gate admits the
\* connection as the User with the token's firebaseUid, and only when there
\* is none as the User with the token's e-mail; it rejects with 'User not
\* found' exactly when neither names a User record; and it never reports
\* an accepted credential as invalid or expired.
C11_UserNotFoundExactly ==
  (resp.kind = "connect" /\ resp.token # NoToken /\ VerifyError(resp.token) = "") =>
    /\ resp.err = "User not found" <=>
         (MatchesByUid(resp.token) = {} /\ MatchesByEmail(resp.token) = {})
    /\ resp.err \notin {"Authentication token expired", "Invalid authentication token",
                        "Invalid authentication token format"}
    /\ resp.err = "" =>
         IF MatchesByUid(resp.token) # {} THEN resp.user \in MatchesByUid(resp.token)
         ELSE resp.user \in MatchesByEmail(resp.token)

\* The verifier accepted the credential, the User lookup rejected, and the
\* connection was turned away as carrying an invalid credential.
C11_OutageReportedInvalid ==
  /\ resp.kind = "connect" /\ resp.token # NoToken /\ VerifyError(resp.token) = ""
  /\ resp.cause = "lookup-rejected"
  /\ resp.err = "Invalid authentication token"

\* C12: when the page receives the event it received last once more
\* (task_created, task_updated, task_shared or task_deleted, with or
\* without a re-render in between), its tasks and sharedTasks lists stay as
\* the first application left them.
C12_SameEventTwice == lastEvent.again => ~lastEvent.changed

\* The second of two task_updated events in a row has changed the page's
\* tasks list: the first one had left the task as it was.
C12_SecondUpdateApplied ==
  /\ lastEvent.again /\ lastEvent.changed /\ lastEvent.name = "task_updated"
  /\ \E i \in 1..Len(dash.tasks) :
       dash.tasks[i].id = lastEvent.id /\ dash.tasks[i].ver = lastEvent.ver

\* C13: whenever a socket of the client has just connected, for the first
\* time or again after a disconnect, the page has called loadTasks (which
\* fetches the owned and the shared list) since the client last was without
\* a connection.
C13_ReloadOnConnect == link.step = "connect" => link.fresh

\* A socket has connected again after a disconnect and loadTasks has not
\* been called since the connection was lost.
C13_ReconnectedStale ==
  /\ link.step = "connect" /\ link.isConnected /\ ~link.fresh
  /\ \E i \in 1..Len(link.socks) : link.socks[i].st = "connected"

\* C16: the connection attempts the client has made since its last
\* successful connect number at most the first attempt plus the budget of
\* reconnectionAttempts, and no attempt waited longer than
\* reconnectionDelayMax.
C16_AttemptsBounded ==
  /\ link.tried <= 1 + reconnectionAttempts
  /\ link.delay <= reconnectionDelayMax

\* One socket has used up its reconnection attempts and the client has
\* made a further attempt with a new socket.
C16_RetriedPastBudget ==
  /\ link.tried > 1 + reconnectionAttempts
  /\ \E i \in 1..Len(link.socks) : link.socks[i].attempts = reconnectionAttempts
  /\ \E i \in 1..Len(link.socks) : link.socks[i].st = "opening"

\* C14: after B's loadTasks, B's sharedTasks list holds every task that
\* was shared with B since B's previous load, however many tasks were
\* shared with B before and whenever the task was created.
C14_ReloadHoldsShared ==
  shelf.step = "load" =>
    \A t \in shelf.missed : \E i \in 1..Len(shelf.listed) : shelf.listed[i] = t

\* B has loaded, more than PageLimit tasks are shared with B, and a task
\* shared since B's previous load is not in B's list.
C14_SharedTaskNotListed ==
  /\ shelf.step = "load" /\ Cardinality(shelf.stored) > PageLimit
  /\ \E t \in shelf.missed : \A i \in 1..Len(shelf.listed) : shelf.listed[i] # t

\* The pushes of the last step addressed to user u, as a socket sees them.
PushedTo(u) ==
  LET mine == SelectSeq(pushed, LAMBDA p : p.room = u)
  IN  [i \in 1..Len(mine) |-> [name |-> mine[i].name, data |-> mine[i].data]]

TaskEventNames ==
  {"task_created", "task_updated", "task_deleted", "task_shared", "task_unshared"}

\* C15: what a step pushes to user U reaches exactly the sockets that are
\* connected as U in that step, each of them in full; a socket receives a
\* task event only in the step that pushes it (nothing is kept for a
\* socket that connects later); and a step that pushes leaves the sockets
\* and the rooms as they were.
C15_DeliveredToOpenSocketsOnly ==
  /\ [](\A c \in ConnIds :
          /\ (pushed # <<>> /\ conns[c].st = "open") => inbox[c] = PushedTo(conns[c].user)
          /\ (pushed # <<>> /\ conns[c].st # "open") => inbox[c] = <<>>
          /\ pushed = <<>> =>
               \A i \in 1..Len(inbox[c]) : inbox[c][i].name \notin TaskEventNames)
  /\ [][pushed' # <<>> => (rooms' = rooms /\ conns' = conns)]_vars

\* A share by A, who has two sockets open, with B, who has none: both of
\* A's sockets got the task_updated and the task_shared reached no socket.
C15_TwoTabsAndNobody ==
  /\ resp.kind = "share" /\ resp.code = 200 /\ resp.target = "B"
  /\ rooms["A"] = {1, 2} /\ rooms["B"] = {}
  /\ Len(inbox[1]) = 1 /\ inbox[1] = inbox[2] /\ inbox[1][1].name = "task_updated"
  /\ PushesOf("task_shared", "B", resp.task) # {}

\* C17: when DELETE /api/auth/profile answers 200 for user U, U's User record
\* is gone, no task has owner U and no task's sharedWith holds U.
C17_AccountGone ==
  (resp.kind = "account" /\ resp.code = 200) =>
    /\ resp.user \in acct.gone
    /\ \A t \in TaskIds :
         tasks[t] # NoTask =>
           /\ tasks[t].owner # resp.user
           /\ ~Includes(tasks[t].sharedWith, resp.user)

\* The deletion answered 200 and a task is still shared with the deleted user.
C17_SharedDuringDeletion ==
  /\ resp.kind = "account" /\ resp.code = 200
  /\ resp.user \in acct.gone
  /\ \E t \in TaskIds :
       tasks[t] # NoTask /\ Includes(tasks[t].sharedWith, resp.user)

\* A request on an existing task by a user who is not the owner it was
\* created with ends in the step taken.
NonOwnerAnswered ==
  /\ resp'.kind \in {"update", "delete", "share", "unshare"}
  /\ resp'.task \in TaskIds
  /\ resp'.user # NoUser
  /\ owners[resp'.task] # NoUser
  /\ resp'.user # owners[resp'.task]

C19_EnvelopeMatches ==
  \A i \in 1..Len(pushed) :
    /\ pushed[i].name \in TaskEventNames
    /\ pushed[i].data.event = pushed[i].name
    /\ pushed[i].data.ts

\* An unshare's notice to the removed user carries neither field.
C19_BareUnshareNotice ==
  /\ resp.kind = "unshare" /\ resp.code = 200
  /\ \E i \in 1..Len(pushed) :
       /\ pushed[i].name = "task_unshared"
       /\ pushed[i].room = resp.target
       /\ pushed[i].data.event = ""
       /\ ~pushed[i].data.ts

\* What a step does to the stored dueDate: it changes only to a value at
\* least 60 seconds after the clock of that step; a write attempted with an
\* earlier value is answered with an error; an error answer comes with no
\* change and no event.
DueStepKept ==
  /\ (cal'.stored # cal.stored) =>
        (cal'.now = cal.now /\ cal'.stored >= cal.now + 60000)
  /\ (cal.req.pc = "write" /\ cal'.req # cal.req /\ cal.req.due < cal.now + 60000) =>
        (cal'.out.code \in {400, 500})
  /\ (cal'.out.code \in {400, 404, 500}) =>
        (cal'.stored = cal.stored /\ cal'.made = cal.made /\ cal'.out.event = "")

\* C20: a create or update that sets a dueDate stores it only when it is at
\* least 60 seconds after the server clock at the write; a request whose
\* dueDate is earlier than that is answered with an error, and an error
\* answer comes with no change of the stored dueDate and no event.
C20_DueFloorAtWrite ==
  /\ [](cal.out.code \in {200, 201} => cal.out.due >= cal.out.at + 60000)
  /\ [][DueStepKept]_vars

\* An update passed the request validators, the clock moved past its
\* dueDate's floor while the handler waited, and the write was refused.
C20_LateWriteRefused ==
  /\ cal.out.kind = "update" /\ cal.out.code = 500
  /\ cal.out.due < cal.now + 60000
  /\ cal.made /\ cal.stored # cal.out.due

\* C21: a handler never pushes the events of its write after the events of
\* a write on the same task that committed later have been pushed.
C21_EmittedInCommitOrder ==
  pushed # <<>> => ~resp.passed

\* A request's events were pushed although a write on the same task that
\* committed after its own had already pushed its events.
C21_EarlierWriteAnnouncedLater ==
  /\ pushed # <<>>
  /\ resp.passed
  /\ resp.committed
  /\ resp.kind \in {"update", "share"}

\* The rooms the last step pushed task_deleted for task t into.
DeletedRooms(t) ==
  {pushed[i].room : i \in PushesOfName("task_deleted", t)}

\* C22: the rooms a successful delete pushes task_deleted into are exactly
\* the owner's and those of the users in the task's sharedWith at the
\* instant the delete removed it, whatever share or unshare ran between
\* the handler's read and its delete.
C22_DeletedSnapshotAtCommit ==
  (resp.kind = "delete" /\ resp.code = 200 /\ resp.hit) =>
    DeletedRooms(resp.task) = {owners[resp.task]} \cup resp.pre

\* A delete removed the task and answered 200; its task_deleted went to a
\* user who had been unshared before the removal, or missed a user who had
\* been added before it.
C22_StaleRecipients ==
  /\ resp.kind = "delete" /\ resp.code = 200 /\ resp.hit
  /\ DeletedRooms(resp.task) # {owners[resp.task]} \cup resp.pre
  /\ owners[resp.task] \in DeletedRooms(resp.task)

\* C23: when one push of an update's task_updated fan-out fails, every
\* other recipient of that update (the owner and the users in the updated
\* task's sharedWith) is still pushed task_updated.
C23_FailureIsolated ==
  (resp.kind = "update" /\ resp.code = 200 /\ resp.lost # NoUser) =>
    \A u \in ({owners[resp.task]} \cup resp.post) \ {resp.lost} :
      PushesOf("task_updated", u, resp.task) # {}

\* The push to the first of two shared users failed and the second shared
\* user was pushed nothing.
C23_LaterRecipientSkipped ==
  /\ resp.kind = "update" /\ resp.code = 200
  /\ resp.lost \in resp.post
  /\ \E u \in resp.post \ {resp.lost} : PushesOf("task_updated", u, resp.task) = {}
  /\ PushesOf("task_updated", owners[resp.task], resp.task) # {}

\* C24: withRetry calls the wrapped operation at most maxAttempts times,
\* never waits and retries after a 401, 403 or 404, retries an error that
\* is not a warm-up error only after the first or second attempt, and never
\* waits longer than maxDelay between two attempts.
C24_RetryBounded ==
  /\ retry.calls <= retry.config.maxAttempts
  /\ retry.after \notin {"401", "403", "404"}
  /\ (retry.after = "500" => retry.at < 2)
  /\ retry.wait <= retry.config.maxDelay

\* The exponential delay has reached maxDelay and the wait before the next
\* attempt is longer than maxDelay.
C24_WaitAboveCap ==
  /\ retry.status = "running"
  /\ retry.calls < retry.config.maxAttempts
  /\ isWarmupError(retry.after)
  /\ retry.wait > retry.config.maxDelay

\* C25: a task_unshared received with the share dialog closed leaves the
\* task out of the page's sharedTasks at once, and whenever the share
\* dialog is closed, by cancel or by a successful share, no task unshared
\* meanwhile is left in sharedTasks.
C25_UnsharedLeavesCache ==
  /\ (modal.step = "unshared" /\ ~modal.isShareModalOpen) =>
       modal.on \notin modal.sharedTasks
  /\ modal.step \in {"close", "shared"} =>
       modal.sharedTasks \cap modal.unshared = {}

\* The dialog was closed by a successful share and a task unshared while it
\* was open is still listed, its id still pending.
C25_ClosedByShareStillListed ==
  /\ modal.step = "shared"
  /\ ~modal.isShareModalOpen
  /\ \E t \in modal.unshared :
       /\ t \in modal.sharedTasks
       /\ t \in Range(modal.unsharedTaskIdsPendingUpdate)

\* C26: the pushes of one handler run hold no two pushes of the same event
\* name into the same user's room.
C26_PushedAtMostOnce ==
  \A i, j \in 1..Len(pushed) :
    (pushed[i].name = pushed[j].name /\ pushed[i].room = pushed[j].room) => i = j

\* An unshare answered 200 and pushed task_updated into the owner's room
\* twice, although no user is in the task's sharedWith more than once.
C26_OwnerToldTwice ==
  /\ resp.kind = "unshare" /\ resp.code = 200
  /\ tasks[resp.task] # NoTask
  /\ Cardinality(Range(tasks[resp.task].sharedWith)) = Len(tasks[resp.task].sharedWith)
  /\ Cardinality(PushesOf("task_updated", owners[resp.task], resp.task)) = 2

\* C27: no stored task holds a user in sharedWith more than once, and a
\* share answers 200 (and pushes task_shared) only when its target was not
\* yet in the stored sharedWith at its write.
C27_SharedAtMostOnce ==
  /\ \A t \in TaskIds :
       tasks[t] # NoTask =>
         Cardinality(Range(tasks[t].sharedWith)) = Len(tasks[t].sharedWith)
  /\ (resp.kind = "share" /\ resp.code = 200) => resp.target \notin resp.pre

\* The second of two shares of one task with one user answered 200 and
\* pushed task_shared again; the user is in the stored sharedWith twice.
C27_SameUserSharedTwice ==
  /\ resp.kind = "share" /\ resp.code = 200
  /\ resp.target \in resp.pre
  /\ PushesOf("task_shared", resp.target, resp.task) # {}
  /\ tasks[resp.task] # NoTask
  /\ Len(SelectSeq(tasks[resp.task].sharedWith, LAMBDA x : x = resp.target)) = 2

\* The requests that went through the handler with the token of request j.
AuthFirsts(j) ==
  {i \in 1..MaxAuth : auth.reqs[i].first /\ auth.reqs[i].token = auth.reqs[j].token}

\* C28: for one idToken at most one request is in the handler at a time, a
\* waiting duplicate always has such a request to wait for, every duplicate
\* is answered with the status, message and body of a request that went
\* through the handler, and activeAuthRequests holds a token only while a
\* request of it is in the handler.
C28_DuplicatesShareOutcome ==
  /\ \A t \in AuthTokens :
       LET running == {i \in 1..MaxAuth :
                        /\ auth.reqs[i].token = t
                        /\ auth.reqs[i].pc \in {"verify", "find", "save", "refind"}}
           waiting == {i \in 1..MaxAuth :
                        auth.reqs[i].token = t /\ auth.reqs[i].pc = "waiting"}
       IN  /\ Cardinality(running) <= 1
           /\ waiting # {} => running # {}
           /\ (t \in auth.activeAuthRequests) <=> (running # {})
  /\ \A j \in 1..MaxAuth :
       (auth.reqs[j].pc = "answered" /\ ~auth.reqs[j].first) =>
         \E i \in AuthFirsts(j) :
           auth.reqs[i].pc = "answered" /\ auth.reqs[i].out = auth.reqs[j].out

\* A duplicate was answered 500 'User creation failed ...' while the
\* request it waited for was answered 401 'Invalid Firebase token'.
C28_DuplicateAnsweredOtherwise ==
  \E i, j \in 1..MaxAuth :
    /\ auth.reqs[i].token = auth.reqs[j].token
    /\ auth.reqs[i].first /\ ~auth.reqs[j].first
    /\ auth.reqs[i].pc = "answered" /\ auth.reqs[j].pc = "answered"
    /\ auth.reqs[i].out = InvalidToken
    /\ auth.reqs[j].out = NotFoundAfterDuplicate

\* C29: as long as no record of the identity has been deleted, the identity
\* has at most one User record, and every request whose token was verified
\* is answered 200 with the id of that one record.
C29_OneUserPerIdentity ==
  ~auth.erased =>
    /\ Cardinality(auth.users) <= 1
    /\ \A i \in 1..MaxAuth :
         (auth.reqs[i].pc = "answered" /\ auth.reqs[i].verified) =>
           /\ auth.reqs[i].out.status = 200
           /\ auth.users = {auth.reqs[i].out.id}

\* Two requests with different tokens both found no user and both saved;
\* the second save hit the unique index, and both were answered 200 with
\* the same id.
C29_RecoveredFromDuplicateKey ==
  /\ ~auth.erased
  /\ \E i, j \in 1..MaxAuth :
       /\ auth.reqs[i].token # auth.reqs[j].token
       /\ auth.reqs[i].first /\ auth.reqs[j].first
       /\ auth.reqs[i].pc = "answered" /\ auth.reqs[j].pc = "refind"
  /\ auth.made = 1

\* The sockets of the provider that are connected or connecting.
LiveSockets(l) ==
  {i \in 1..Len(l.socks) : l.socks[i].st \in {"opening", "connected"}}

\* C30: at most one socket of the provider is connected or connecting at
\* any moment, and once disconnect() has been called no step creates a
\* socket.
C30_OneSocketAtATime ==
  /\ [](Cardinality(LiveSockets(link)) <= 1)
  /\ [][link.left => Len(link'.socks) = Len(link.socks)]_vars

\* After disconnect() a retry timer that was left pending has fired and
\* connect() has created a socket, which is now connecting.
C30_SocketOpenedAfterLogout ==
  /\ link.left
  /\ link.step = "timer"
  /\ Len(link.socks) = 2
  /\ link.socks[1].st = "closed"
  /\ link.socks[2].st = "opening"

====
